---- MODULE Spec2Model ----
(***************************************************************************)
(* A model of listup_law: the era calendar (era_to_ad, ad_to_era), the     *)
(* file-name parser (file_path_to_data), the streaming field extractor     *)
(* (make_law_data, in its single-pass and registry-driven variants) and    *)
(* the corpus scan that assembles each law's patch chain (main.rs).        *)
(*                                                                         *)
(* Encodings used throughout:                                              *)
(*   Option<T>      None == <<>>, Some(v) == <<v>>                         *)
(*   Result / panic a record with kind "Ok", "Err" or "Panic"              *)
(*   String         a sequence of one-character strings                    *)
(*   usize          an integer; a subtraction that wraps in a build        *)
(*                  without overflow checks keeps the (negative)           *)
(*                  mathematical difference d and sets wrapped = TRUE: the *)
(*                  machine value is 2^64 + d.                             *)
(***************************************************************************)
EXTENDS Integers, Sequences, FiniteSets, TLC

VARIABLES
  overflow_checks,   \* build profile: TRUE = overflow checks on (debug), FALSE = off (release)
  era_arg,           \* the arguments of the era-calendar call under study
  ad,                \* Option: the Gregorian year handed to ad_to_era
  era_out,           \* the outcome of ad_to_era, or NoCall
  file_name,         \* file_path_to_data: the file name handed in
  fp_out,            \* file_path_to_data: its outcome, or NoCall
  events,            \* make_law_data: the events the reader has returned so far
  open,              \* the reader's stack of open element names (innermost last)
  is_law_num_mode,   \* make_law_data: inside LawNum
  is_law_name_mode,  \* make_law_data: inside LawTitle
  is_ruby_mode,      \* make_law_data: inside Ruby
  law_num,           \* make_law_data: the captured law number
  law_name,          \* make_law_data: the captured title
  law_date,          \* make_law_data: Option<Date> from the Law element
  xml_out,           \* make_law_data: its outcome, or NoCall while it reads
  law_id_map,        \* registry-driven make_law_data: law number -> LawId {id, name}
  reg_log,           \* registry-driven make_law_data: the error! lines written
  top,               \* corpus scan: entries of work_dir that read_dir has yet to return
  corpus,            \* corpus scan: entries of the subdirectories yet to be returned
  cur,               \* corpus scan: Option, the subdirectory being read
  seen,              \* corpus scan: the files read so far
  info_lst,          \* corpus scan: HashMap<LawId, LawInfo>
  pc,                \* corpus scan: "scan", "write", "done", "failed" or "panicked"
  io_failed,         \* corpus scan: a filesystem call returned an error
  unwritten,         \* main: the entries of law_info_lst yet to be written
  patch_log,         \* main: the lists logged as "patch list"
  output,            \* main: the records written to the output file
  cmp_self,          \* Date ordering: the left operand of the comparison
  cmp_other,         \* Date ordering: the right operand of the comparison
  cmp_out            \* Date ordering: the method called and its result, or NoCall

eraVars == <<era_arg, ad, era_out>>

fileVars == <<file_name, fp_out>>

xmlVars ==
  <<events, open, is_law_num_mode, is_law_name_mode, is_ruby_mode, law_num, law_name,
    law_date, xml_out>>

regVars == <<law_id_map, reg_log>>

scanVars == <<top, corpus, cur, seen, info_lst, pc, io_failed, unwritten, patch_log, output>>

ordVars == <<cmp_self, cmp_other, cmp_out>>

vars == <<overflow_checks, eraVars, fileVars, xmlVars, regVars, scanVars, ordVars>>

None == <<>>

Some(v) == <<v>>

IsSome(o) == Len(o) = 1

Unwrap(o) == o[1]

NoCall == [kind |-> "NoCall"]

Panic(m) == [kind |-> "Panic", msg |-> m]

\* The variables of a component that a specification does not exercise.
IdleEra == era_arg = [kind |-> "-"] /\ ad = None /\ era_out = NoCall

IdleFile == file_name = <<>> /\ fp_out = NoCall

IdleXml ==
  /\ events = <<>> /\ open = <<>>
  /\ is_law_num_mode = FALSE /\ is_law_name_mode = FALSE /\ is_ruby_mode = FALSE
  /\ law_num = "" /\ law_name = "" /\ law_date = None
  /\ xml_out = NoCall

IdleReg == law_id_map = <<>> /\ reg_log = <<>>

IdleScan ==
  /\ top = {} /\ corpus = {} /\ cur = None /\ seen = {}
  /\ info_lst = <<>> /\ pc = "-" /\ io_failed = FALSE
  /\ unwritten = {} /\ patch_log = <<>> /\ output = <<>>

IdleOrd == cmp_self = None /\ cmp_other = None /\ cmp_out = NoCall

(***************************************************************************)
(* Bounds of the era-calendar inputs.                                      *)
(***************************************************************************)
MinYear == 1866

MaxYear == 2021

MaxReiwaYear == 3

Eras == {"Meiji", "Taisho", "Showa", "Heisei", "Reiwa"}

Months == 1..12

Days == 1..31

(***************************************************************************)
(* usize subtraction: exact when a >= b; otherwise a panic with overflow   *)
(* checks on and a wrap-around with them off.                              *)
(***************************************************************************)
usize_sub(a, b) ==
  IF a >= b THEN [kind |-> "Ok", val |-> a - b, wrapped |-> FALSE]
  ELSE IF overflow_checks THEN Panic("attempt to subtract with overflow")
  ELSE [kind |-> "Ok", val |-> a - b, wrapped |-> TRUE]

era_to_ad(era, year) ==
  CASE era = "Meiji" -> 1867 + year
    [] era = "Taisho" -> 1911 + year
    [] era = "Showa" -> 1925 + year
    [] era = "Heisei" -> 1988 + year
    [] era = "Reiwa" -> 2018 + year

\* The tuple (era, year - offset) of one arm of ad_to_era.
era_pair(era, diff) ==
  IF diff.kind = "Panic" THEN diff
  ELSE [kind |-> "Ok", era |-> era, year |-> diff.val, wrapped |-> diff.wrapped]

ad_to_era(year, month, day) ==
  LET t == year * 10000 + month * 100 + day IN
  IF 18681023 <= t /\ t <= 19120729 THEN era_pair("Meiji", usize_sub(year, 1867))
  ELSE IF 19120730 <= t /\ t <= 19261224 THEN era_pair("Taisho", usize_sub(year, 1920))
  ELSE IF 19261225 <= t /\ t <= 19890107 THEN era_pair("Showa", usize_sub(year, 1925))
  ELSE IF 19890108 <= t /\ t <= 20190430 THEN era_pair("Heisei", usize_sub(year, 1988))
  ELSE IF 20190501 <= t THEN era_pair("Reiwa", usize_sub(year, 2018))
  ELSE Panic("internal error: entered unreachable code")

(***************************************************************************)
(* The era calendar on its own: a call of ad_to_era on a Gregorian date,   *)
(* or era_to_ad on (era, year) followed by ad_to_era on its result.        *)
(***************************************************************************)
LastEraYear(era) ==
  CASE era = "Meiji" -> 45
    [] era = "Taisho" -> 15
    [] era = "Showa" -> 64
    [] era = "Heisei" -> 31
    [] era = "Reiwa" -> MaxReiwaYear

\* The inputs are dates of the Gregorian calendar.
IsLeap(y) == (y % 4 = 0 /\ y % 100 # 0) \/ y % 400 = 0

DaysIn(y, m) ==
  IF m = 2 THEN (IF IsLeap(y) THEN 29 ELSE 28)
  ELSE IF m \in {4, 6, 9, 11} THEN 30 ELSE 31

DateArgs ==
  {a \in [kind : {"date"}, era : {"-"}, year : MinYear..MaxYear, month : Months, day : Days] :
     a.day <= DaysIn(a.year, a.month)}

EraArgs ==
  {a \in [kind : {"era"}, era : Eras, year : 1..64, month : Months, day : Days] :
     /\ a.year <= LastEraYear(a.era)
     /\ a.day <= DaysIn(era_to_ad(a.era, a.year), a.month)}

InitEra ==
  /\ overflow_checks \in BOOLEAN
  /\ era_arg \in DateArgs \cup EraArgs
  /\ ad = IF era_arg.kind = "date" THEN Some(era_arg.year) ELSE None
  /\ era_out = NoCall
  /\ IdleFile
  /\ IdleXml
  /\ IdleReg
  /\ IdleScan
  /\ IdleOrd

CallEraToAd ==
  /\ era_arg.kind = "era"
  /\ ad = None
  /\ ad' = Some(era_to_ad(era_arg.era, era_arg.year))
  /\ UNCHANGED <<overflow_checks, era_arg, era_out, fileVars, xmlVars, regVars, scanVars, ordVars>>

CallAdToEra ==
  /\ IsSome(ad)
  /\ era_out = NoCall
  /\ era_out' = ad_to_era(Unwrap(ad), era_arg.month, era_arg.day)
  /\ UNCHANGED <<overflow_checks, era_arg, ad, fileVars, xmlVars, regVars, scanVars, ordVars>>

NextEra == CallEraToAd \/ CallAdToEra

SpecEra == InitEra /\ [][NextEra]_vars

(***************************************************************************)
(* FilenameParser: file_path_to_data.                                      *)
(*                                                                         *)
(* Characters.  The regex crate's \d is Unicode-aware: it matches every    *)
(* decimal digit, of which ARABIC-INDIC DIGIT THREE, written "U+0663", is  *)
(* the one non-ASCII representative here. [A-Za-z] is ASCII only, and `.`  *)
(* matches every character but a line feed, written "LF".                  *)
(***************************************************************************)
Digit == {"0", "1", "2", "3", "4", "5", "6", "7", "8", "9"}

UnicodeDigit == {"U+0663"}

Letter == {"A", "C", "x", "m", "l", "z"}

DigitVal(c) ==
  CASE c = "0" -> 0 [] c = "1" -> 1 [] c = "2" -> 2 [] c = "3" -> 3 [] c = "4" -> 4
    [] c = "5" -> 5 [] c = "6" -> 6 [] c = "7" -> 7 [] c = "8" -> 8 [] c = "9" -> 9

\* The class \d of the pattern.
ReDigit == Digit \cup UnicodeDigit

\* The class [\dA-Za-z] of the pattern.
IdChar == ReDigit \cup Letter

\* The pattern's `.`, which is not escaped.
IsAnyChar(c) == c # "LF"

AllIn(s, from, to, class) == \A p \in from..to : s[p] \in class

(***************************************************************************)
(* A match of                                                              *)
(*   (?P<id>[\dA-Za-z]+)_(?P<ad_year>[\d]{4})(?P<month>[\d]{2})            *)
(*   (?P<day>[\d]{2})_(?P<patch_id>[\dA-Za-z]+).xml                        *)
(* in s that starts at i, has its first `_` at j and whose patch_id ends   *)
(* at k. The pattern has no anchors: a match may start and end anywhere.   *)
(***************************************************************************)
re_head(s, i, j) ==
  /\ 1 <= i /\ i < j
  /\ AllIn(s, i, j - 1, IdChar)

re_mid(s, j) ==
  /\ j + 9 <= Len(s)
  /\ s[j] = "_"
  /\ AllIn(s, j + 1, j + 8, ReDigit)
  /\ s[j + 9] = "_"

re_tail(s, j, k) ==
  /\ j + 10 <= k
  /\ k + 4 <= Len(s)
  /\ AllIn(s, j + 10, k, IdChar)
  /\ IsAnyChar(s[k + 1])
  /\ s[k + 2] = "x" /\ s[k + 3] = "m" /\ s[k + 4] = "l"

re_match(s, i, j, k) == re_head(s, i, j) /\ re_mid(s, j) /\ re_tail(s, j, k)

SetMin(S) == CHOOSE x \in S : \A y \in S : x <= y

SetMax(S) == CHOOSE x \in S : \A y \in S : x >= y

(***************************************************************************)
(* Regex::captures: the leftmost match, its greedy groups as long as the   *)
(* rest of the pattern allows; None when the pattern matches nowhere.      *)
(***************************************************************************)
captures(s) ==
  LET P == 1..Len(s)
      mids == {j \in P : re_mid(s, j) /\ \E k \in P : re_tail(s, j, k)}
      starts == {i \in P : \E j \in mids : re_head(s, i, j)} IN
  IF starts = {} THEN None
  ELSE LET i == SetMin(starts)
           j == CHOOSE jj \in mids : re_head(s, i, jj)
           k == SetMax({kk \in P : re_match(s, i, j, kk)}) IN
       Some([id |-> SubSeq(s, i, j - 1),
             ad_year |-> SubSeq(s, j + 1, j + 4),
             month |-> SubSeq(s, j + 5, j + 6),
             day |-> SubSeq(s, j + 7, j + 8),
             patch_id |-> SubSeq(s, j + 10, k)])

RECURSIVE digits_value(_)
digits_value(s) ==
  IF s = <<>> THEN 0
  ELSE digits_value(SubSeq(s, 1, Len(s) - 1)) * 10 + DigitVal(s[Len(s)])

(***************************************************************************)
(* str::parse::<usize>: an optional "+" and then ASCII digits only (the    *)
(* strings of this model are too short to exceed usize).                   *)
(***************************************************************************)
parse_usize(s) ==
  LET body == IF Len(s) > 1 /\ s[1] = "+" THEN Tail(s) ELSE s IN
  IF body = <<>> \/ \E p \in 1..Len(body) : body[p] \notin Digit
  THEN [kind |-> "Err", err |-> "ParseIntError"]
  ELSE [kind |-> "Ok", val |-> digits_value(body)]

\* anyhow!("ファイルのpathのparse失敗：{file_name}")
path_parse_failure(name) == [kind |-> "Err", err |-> "path parse failure", name |-> name]

file_path_to_data(dir_name, name) ==
  LET caps == captures(name) IN
  IF caps = None THEN path_parse_failure(name)
  ELSE
    LET c == Unwrap(caps)
        ad_year == parse_usize(c.ad_year)
        month == parse_usize(c.month)
        day == parse_usize(c.day) IN
    IF ad_year.kind = "Err" THEN ad_year
    ELSE IF month.kind = "Err" THEN month
    ELSE IF day.kind = "Err" THEN day
    ELSE
      LET ey == ad_to_era(ad_year.val, month.val, day.val) IN
      IF ey.kind = "Panic" THEN ey
      ELSE [kind |-> "Ok",
            id |-> c.id,
            info |-> [dir_name |-> dir_name,
                      file_name |-> name,
                      id |-> c.id,
                      patch_date |-> [ad_year |-> ad_year.val,
                                      era |-> ey.era,
                                      year |-> ey.year,
                                      year_wrapped |-> ey.wrapped,
                                      month |-> Some(month.val),
                                      day |-> Some(day.val)],
                      patch_id |-> c.patch_id]]

(***************************************************************************)
(* The file names handed to file_path_to_data: the name of the             *)
(* specification's example, and every name put together from the parts     *)
(* below (a well-formed name, and names differing from one in one or more  *)
(* places).                                                                *)
(***************************************************************************)
Rep(c, n) == [p \in 1..n |-> c]

ExampleName ==
  <<"1", "2", "3", "A", "C">> \o Rep("0", 9) \o <<"1", "_">>
    \o <<"2", "0", "1", "9", "0", "5", "0", "1", "_">> \o Rep("0", 15)
    \o <<".", "x", "m", "l">>

NamePrefixes == {<<>>, <<"-">>, <<"A", "_">>}

NameIds == {<<"1", "A">>, <<>>}

NameSeps == {<<"_">>, <<"-">>}

NameDates ==
  { <<"2", "0", "1", "9", "0", "5", "0", "1">>,
    <<"1", "9", "1", "5", "0", "1", "0", "1">>,
    <<"1", "8", "0", "0", "0", "1", "0", "1">>,
    <<"2", "0", "1", "9", "0", "5", "0">>,
    <<"2", "0", "1", "U+0663", "0", "5", "0", "1">> }

NamePatchIds == {<<"0">>, <<"0", "x">>, <<>>}

NameDots == {<<".">>, <<"x">>, <<"LF">>, <<>>}

NameExts == {<<"x", "m", "l">>, <<"x", "m">>}

NameSuffixes == {<<>>, <<"z">>}

FileNames ==
  {ExampleName} \cup
  { pre \o id \o s1 \o date \o <<"_">> \o pid \o dot \o ext \o suf :
      pre \in NamePrefixes, id \in NameIds, s1 \in NameSeps, date \in NameDates,
      pid \in NamePatchIds, dot \in NameDots, ext \in NameExts, suf \in NameSuffixes }

InitFile ==
  /\ overflow_checks \in BOOLEAN
  /\ file_name \in FileNames
  /\ fp_out = NoCall
  /\ IdleEra
  /\ IdleXml
  /\ IdleReg
  /\ IdleScan
  /\ IdleOrd

CallFilePathToData ==
  /\ fp_out = NoCall
  /\ fp_out' = file_path_to_data(<<"d">>, file_name)
  /\ UNCHANGED <<overflow_checks, file_name, eraVars, xmlVars, regVars, scanVars, ordVars>>

NextFile == CallFilePathToData

SpecFile == InitFile /\ [][NextFile]_vars

(***************************************************************************)
(* XmlFieldExtractor: make_law_data of the single-pass variant.            *)
(*                                                                         *)
(* The reader hands the loop one event at a time. An attribute is          *)
(* [ok, key, value, utf8]: ok = FALSE is an attribute the reader could not *)
(* parse, utf8 = FALSE a value that is not UTF-8. The value of Era is a    *)
(* string, every other value a sequence of characters.                     *)
(***************************************************************************)
Attr(key, value) == [ok |-> TRUE, key |-> key, value |-> value, utf8 |-> TRUE]

StartEv(name, attrs) ==
  [type |-> "Start", name |-> name, attrs |-> attrs, text |-> "", utf8 |-> TRUE]

EndEv(name) ==
  [type |-> "End", name |-> name, attrs |-> <<>>, text |-> "", utf8 |-> TRUE]

TextEv(text, utf8) ==
  [type |-> "Text", name |-> "", attrs |-> <<>>, text |-> text, utf8 |-> utf8]

\* Empty, CData, Comment, Decl, PI, DocType: the arm `_ => ()`.
OtherEv == [type |-> "Other", name |-> "", attrs |-> <<>>, text |-> "", utf8 |-> TRUE]

EofEv == [type |-> "Eof", name |-> "", attrs |-> <<>>, text |-> "", utf8 |-> TRUE]

ErrEv == [type |-> "Err", name |-> "", attrs |-> <<>>, text |-> "", utf8 |-> TRUE]

(***************************************************************************)
(* tag.attributes().find(|res| key(res.unwrap()) is one of keys)           *)
(*    .map(|res| decode(res.unwrap().value).unwrap())                      *)
(* the first attribute with one of the keys; the closure unwraps every     *)
(* attribute it visits, and the value is unwrapped after decoding.         *)
(***************************************************************************)
find_attr(attrs, keys) ==
  LET stops == {p \in 1..Len(attrs) : ~attrs[p].ok \/ attrs[p].key \in keys} IN
  IF stops = {} THEN [kind |-> "Ok", val |-> None]
  ELSE LET a == attrs[SetMin(stops)] IN
       IF ~a.ok THEN Panic("called Result::unwrap() on an Err value")
       ELSE IF ~a.utf8 THEN Panic("called Result::unwrap() on an Err value")
       ELSE [kind |-> "Ok", val |-> Some(a.value)]

\* .and_then(|s| s.parse().ok())
and_then_parse_ok(o) ==
  IF o = None THEN None
  ELSE LET r == parse_usize(Unwrap(o)) IN
       IF r.kind = "Ok" THEN Some(r.val) ELSE None

\* The arm b"Law": the promulgation date from the attributes, or a panic.
law_start(attrs) ==
  LET era_str == find_attr(attrs, {"Era"})
      year_str == find_attr(attrs, {"Year"})
      month_str == find_attr(attrs, {"Month", "PromulgateMonth"})
      day_str == find_attr(attrs, {"Day", "PromulgateDay"}) IN
  IF era_str.kind = "Panic" THEN era_str
  ELSE IF era_str.val = None THEN Panic("called Option::unwrap() on a None value")
  ELSE IF Unwrap(era_str.val) \notin Eras THEN Panic("not implemented")
  ELSE IF year_str.kind = "Panic" THEN year_str
  ELSE IF and_then_parse_ok(year_str.val) = None
    THEN Panic("called Option::unwrap() on a None value")
  ELSE IF month_str.kind = "Panic" THEN month_str
  ELSE IF day_str.kind = "Panic" THEN day_str
  ELSE
    LET era == Unwrap(era_str.val)
        year == Unwrap(and_then_parse_ok(year_str.val)) IN
    [kind |-> "Ok",
     val |-> [ad_year |-> era_to_ad(era, year),
              era |-> era,
              year |-> year,
              year_wrapped |-> FALSE,
              month |-> and_then_parse_ok(month_str.val),
              day |-> and_then_parse_ok(day_str.val)]]

\* The parameters info and version_info of make_law_data.
XmlInfo ==
  [dir_name |-> "d", file_name |-> "f", id |-> "A"]

XmlVersionInfo == <<XmlInfo>>

\* The lines after the loop: the record, or a panic when no date was set.
make_law_data_result ==
  IF law_date = None THEN Panic("called Option::unwrap() on a None value")
  ELSE [kind |-> "Ok",
        val |-> Some([date |-> Unwrap(law_date),
                      file |-> <<XmlInfo.dir_name, "/", XmlInfo.file_name>>,
                      name |-> law_name,
                      num |-> law_num,
                      id |-> XmlInfo.id,
                      patch |-> XmlVersionInfo])]

(***************************************************************************)
(* The documents: up to MaxEvents events before the end of the stream,     *)
(* over these element names, Law attribute lists and texts.                *)
(***************************************************************************)
MaxEvents == 5

TagNames == {"Law", "LawNum", "LawTitle", "Ruby", "Rt"}

LawAttrLists ==
  { <<Attr("Era", "Meiji"), Attr("Year", <<"5">>)>>,
    <<Attr("Year", <<"5">>)>>,
    <<Attr("Era", "Meiji")>>,
    <<Attr("Era", "Kansei"), Attr("Year", <<"5">>)>> }

\* The text events: two decodable texts and one that is not UTF-8.
TextEvents == {TextEv("a", TRUE), TextEv("b", TRUE), TextEv("a", FALSE)}

Top(stack) == stack[Len(stack)]

Pop(stack) == SubSeq(stack, 1, Len(stack) - 1)

Reading == xml_out = NoCall /\ Len(events) < MaxEvents

\* make_law_data subtracts nothing: the build profile does not matter to it.
InitXml ==
  /\ overflow_checks = FALSE
  /\ events = <<>>
  /\ open = <<>>
  /\ is_law_num_mode = FALSE
  /\ is_law_name_mode = FALSE
  /\ is_ruby_mode = FALSE
  /\ law_num = ""
  /\ law_name = ""
  /\ law_date = None
  /\ xml_out = NoCall
  /\ IdleEra
  /\ IdleFile
  /\ IdleReg
  /\ IdleScan
  /\ IdleOrd

\* Ok(Event::Start(tag)), tag.name() = b"Law"
OnStartLaw(attrs) ==
  /\ Reading
  /\ events' = Append(events, StartEv("Law", attrs))
  /\ open' = Append(open, "Law")
  /\ LET d == law_start(attrs) IN
     IF d.kind = "Panic"
     THEN xml_out' = d /\ law_date' = law_date
     ELSE xml_out' = xml_out /\ law_date' = Some(d.val)
  /\ UNCHANGED <<overflow_checks, is_law_num_mode, is_law_name_mode, is_ruby_mode,
                 law_num, law_name, eraVars, fileVars, regVars, scanVars, ordVars>>

\* Ok(Event::Start(tag)), every other name
OnStart(name) ==
  /\ Reading
  /\ name # "Law"
  /\ events' = Append(events, StartEv(name, <<>>))
  /\ open' = Append(open, name)
  /\ is_law_num_mode' = IF name = "LawNum" THEN TRUE ELSE is_law_num_mode
  /\ is_law_name_mode' = IF name = "LawTitle" THEN TRUE ELSE is_law_name_mode
  /\ is_ruby_mode' = IF name = "Ruby" THEN TRUE ELSE is_ruby_mode
  /\ UNCHANGED <<overflow_checks, law_num, law_name, law_date, xml_out, eraVars, fileVars,
                 regVars, scanVars, ordVars>>

\* Ok(Event::End(tag)): the reader returns it only for the innermost open element
OnEnd(name) ==
  /\ Reading
  /\ open # <<>>
  /\ Top(open) = name
  /\ events' = Append(events, EndEv(name))
  /\ open' = Pop(open)
  /\ is_law_num_mode' = IF name = "LawNum" THEN FALSE ELSE is_law_num_mode
  /\ is_law_name_mode' = IF name = "LawTitle" THEN FALSE ELSE is_law_name_mode
  /\ is_ruby_mode' = IF name = "Ruby" THEN FALSE ELSE is_ruby_mode
  /\ UNCHANGED <<overflow_checks, law_num, law_name, law_date, xml_out, eraVars, fileVars,
                 regVars, scanVars, ordVars>>

\* OnText without the Ruby test on the title arm: Ruby text reaches the title.
OnText_RubyIntoTitle(text, utf8) ==
  /\ Reading
  /\ events' = Append(events, TextEv(text, utf8))
  /\ IF is_law_num_mode /\ ~is_ruby_mode
     THEN IF utf8
          THEN law_num' = text /\ UNCHANGED <<law_name, xml_out>>
          ELSE xml_out' = [kind |-> "Err", err |-> "decode"] /\ UNCHANGED <<law_num, law_name>>
     ELSE IF is_law_name_mode
     THEN IF utf8
          THEN law_name' = text /\ UNCHANGED <<law_num, xml_out>>
          ELSE xml_out' = [kind |-> "Err", err |-> "decode"] /\ UNCHANGED <<law_num, law_name>>
     ELSE UNCHANGED <<law_num, law_name, xml_out>>
  /\ UNCHANGED <<overflow_checks, open, is_law_num_mode, is_law_name_mode, is_ruby_mode,
                 law_date, eraVars, fileVars, regVars, scanVars, ordVars>>

\* Ok(Event::Text(text))
OnText(text, utf8) ==
  /\ Reading
  /\ events' = Append(events, TextEv(text, utf8))
  /\ IF is_law_num_mode /\ ~is_ruby_mode
     THEN IF utf8
          THEN law_num' = text /\ UNCHANGED <<law_name, xml_out>>
          ELSE xml_out' = [kind |-> "Err", err |-> "decode"] /\ UNCHANGED <<law_num, law_name>>
     ELSE IF is_law_name_mode /\ ~is_ruby_mode
     THEN IF utf8
          THEN law_name' = text /\ UNCHANGED <<law_num, xml_out>>
          ELSE xml_out' = [kind |-> "Err", err |-> "decode"] /\ UNCHANGED <<law_num, law_name>>
     ELSE UNCHANGED <<law_num, law_name, xml_out>>
  /\ UNCHANGED <<overflow_checks, open, is_law_num_mode, is_law_name_mode, is_ruby_mode,
                 law_date, eraVars, fileVars, regVars, scanVars, ordVars>>

\* every other event: `_ => ()`
OnOther ==
  /\ Reading
  /\ events' = Append(events, OtherEv)
  /\ UNCHANGED <<overflow_checks, open, is_law_num_mode, is_law_name_mode, is_ruby_mode,
                 law_num, law_name, law_date, xml_out, eraVars, fileVars, regVars, scanVars, ordVars>>

\* Err(e): the reader cannot go on (an end tag that closes nothing open, broken syntax)
OnErr ==
  /\ Reading
  /\ events' = Append(events, ErrEv)
  /\ xml_out' = Panic("XML parse error")
  /\ UNCHANGED <<overflow_checks, open, is_law_num_mode, is_law_name_mode, is_ruby_mode,
                 law_num, law_name, law_date, eraVars, fileVars, regVars, scanVars, ordVars>>

\* Ok(Event::Eof): leave the loop and build the result
OnEof ==
  /\ xml_out = NoCall
  /\ events' = Append(events, EofEv)
  /\ xml_out' = make_law_data_result
  /\ UNCHANGED <<overflow_checks, open, is_law_num_mode, is_law_name_mode, is_ruby_mode,
                 law_num, law_name, law_date, eraVars, fileVars, regVars, scanVars, ordVars>>

NextXml ==
  \/ \E attrs \in LawAttrLists : OnStartLaw(attrs)
  \/ \E name \in TagNames : OnStart(name)
  \/ \E name \in TagNames : OnEnd(name)
  \/ \E ev \in TextEvents : OnText(ev.text, ev.utf8)
  \/ OnOther
  \/ OnErr
  \/ OnEof

SpecXml == InitXml /\ [][NextXml]_vars

(***************************************************************************)
(* The two producers of Date side by side: file_path_to_data on a file     *)
(* name, and make_law_data on a document whose root is one Law element     *)
(* with Era and Year and, for the month and for the day, no attribute, the *)
(* attribute under either of its names, or one whose value is no number.   *)
(***************************************************************************)
MonthAttrs ==
  {<<>>, <<Attr("Month", <<"3">>)>>, <<Attr("PromulgateMonth", <<"3">>)>>,
   <<Attr("Month", <<"x">>)>>}

DayAttrs ==
  {<<>>, <<Attr("Day", <<"7">>)>>, <<Attr("PromulgateDay", <<"7">>)>>,
   <<Attr("Day", <<"x">>)>>}

DateAttrLists ==
  { <<Attr("Era", "Meiji"), Attr("Year", <<"5">>)>> \o m \o d : m \in MonthAttrs, d \in DayAttrs }

DateFileNames ==
  { <<"1", "A", "_">> \o date \o <<"_", "0", ".", "x", "m", "l">> : date \in NameDates }

InitDate ==
  /\ overflow_checks \in BOOLEAN
  /\ file_name \in DateFileNames
  /\ fp_out = NoCall
  /\ events = <<>>
  /\ open = <<>>
  /\ is_law_num_mode = FALSE
  /\ is_law_name_mode = FALSE
  /\ is_ruby_mode = FALSE
  /\ law_num = ""
  /\ law_name = ""
  /\ law_date = None
  /\ xml_out = NoCall
  /\ IdleEra
  /\ IdleReg
  /\ IdleScan
  /\ IdleOrd

NextDate ==
  \/ CallFilePathToData
  \/ \E attrs \in DateAttrLists : events = <<>> /\ OnStartLaw(attrs)
  \/ OnEnd("Law")
  \/ OnEof

SpecDate == InitDate /\ [][NextDate]_vars

(***************************************************************************)
(* RecordAssembler, registry-driven variant: make_law_data of lib.rs (and, *)
(* line for line, of search_data.rs). It captures the law number only,     *)
(* unwraps every parse, and looks the law number up in law_id_map.         *)
(***************************************************************************)
\* str::parse::<u16>() and ::<u8>(): as parse_usize, up to the type's maximum.
parse_uint(s, max) ==
  LET r == parse_usize(s) IN
  IF r.kind = "Ok" /\ r.val > max THEN [kind |-> "Err", err |-> "ParseIntError"] ELSE r

\* .map(|s| s.parse().unwrap()) on the Option a find returned
map_parse_unwrap(o, max) ==
  IF o = None THEN [kind |-> "Ok", val |-> None]
  ELSE LET r == parse_uint(Unwrap(o), max) IN
       IF r.kind = "Ok" THEN [kind |-> "Ok", val |-> Some(r.val)]
       ELSE Panic("called Result::unwrap() on an Err value")

\* The arm b"Law" of the registry-driven variant.
reg_law_start(attrs) ==
  LET era_str == find_attr(attrs, {"Era"})
      year_str == find_attr(attrs, {"Year"})
      month_str == find_attr(attrs, {"Month", "PromulgateMonth"})
      day_str == find_attr(attrs, {"Day", "PromulgateDay"}) IN
  IF era_str.kind = "Panic" THEN era_str
  ELSE IF era_str.val = None THEN Panic("called Option::unwrap() on a None value")
  ELSE IF Unwrap(era_str.val) \notin Eras THEN Panic("not implemented")
  ELSE IF year_str.kind = "Panic" THEN year_str
  ELSE IF year_str.val = None THEN Panic("called Option::unwrap() on a None value")
  ELSE IF map_parse_unwrap(year_str.val, 65535).kind = "Panic"
    THEN map_parse_unwrap(year_str.val, 65535)
  ELSE IF month_str.kind = "Panic" THEN month_str
  ELSE IF map_parse_unwrap(month_str.val, 255).kind = "Panic"
    THEN map_parse_unwrap(month_str.val, 255)
  ELSE IF day_str.kind = "Panic" THEN day_str
  ELSE IF map_parse_unwrap(day_str.val, 255).kind = "Panic"
    THEN map_parse_unwrap(day_str.val, 255)
  ELSE
    [kind |-> "Ok",
     val |-> [era |-> Unwrap(era_str.val),
              year |-> Unwrap(map_parse_unwrap(year_str.val, 65535).val),
              month |-> map_parse_unwrap(month_str.val, 255).val,
              day |-> map_parse_unwrap(day_str.val, 255).val]]

\* The parameter file of make_law_data.
RegFile == "f"

\* The lines after the loop: the registry lookup.
reg_make_law_data_result ==
  IF law_num \in DOMAIN law_id_map
  THEN IF law_date = None THEN Panic("called Option::unwrap() on a None value")
       ELSE [kind |-> "Ok",
             val |-> Some([date |-> Unwrap(law_date),
                           file |-> RegFile,
                           name |-> law_id_map[law_num].name,
                           num |-> law_num,
                           id |-> law_id_map[law_num].id])]
  ELSE [kind |-> "Ok", val |-> None]

\* The registries make_law_id_data may have loaded: law number -> LawId.
LawId(num) == [id |-> <<"id of", num>>, name |-> <<"name of", num>>]

Registries == {[num \in keys |-> LawId(num)] : keys \in SUBSET {"a", "b"}}

RegTagNames == {"Law", "LawNum", "LawTitle"}

InitReg ==
  /\ overflow_checks = FALSE
  /\ law_id_map \in Registries
  /\ reg_log = <<>>
  /\ events = <<>>
  /\ open = <<>>
  /\ is_law_num_mode = FALSE
  /\ is_law_name_mode = FALSE
  /\ is_ruby_mode = FALSE
  /\ law_num = ""
  /\ law_name = ""
  /\ law_date = None
  /\ xml_out = NoCall
  /\ IdleEra
  /\ IdleFile
  /\ IdleScan
  /\ IdleOrd

\* Ok(Event::Start(tag)), tag.name() = b"Law"
RegOnStartLaw(attrs) ==
  /\ Reading
  /\ events' = Append(events, StartEv("Law", attrs))
  /\ open' = Append(open, "Law")
  /\ LET d == reg_law_start(attrs) IN
     IF d.kind = "Panic"
     THEN xml_out' = d /\ law_date' = law_date
     ELSE xml_out' = xml_out /\ law_date' = Some(d.val)
  /\ UNCHANGED <<overflow_checks, is_law_num_mode, is_law_name_mode, is_ruby_mode,
                 law_num, law_name, regVars, eraVars, fileVars, scanVars, ordVars>>

\* Ok(Event::Start(tag)), every other name
RegOnStart(name) ==
  /\ Reading
  /\ name # "Law"
  /\ events' = Append(events, StartEv(name, <<>>))
  /\ open' = Append(open, name)
  /\ is_law_num_mode' = IF name = "LawNum" THEN TRUE ELSE is_law_num_mode
  /\ UNCHANGED <<overflow_checks, is_law_name_mode, is_ruby_mode, law_num, law_name,
                 law_date, xml_out, regVars, eraVars, fileVars, scanVars, ordVars>>

\* Ok(Event::End(tag))
RegOnEnd(name) ==
  /\ Reading
  /\ open # <<>>
  /\ Top(open) = name
  /\ events' = Append(events, EndEv(name))
  /\ open' = Pop(open)
  /\ is_law_num_mode' = IF name = "LawNum" THEN FALSE ELSE is_law_num_mode
  /\ UNCHANGED <<overflow_checks, is_law_name_mode, is_ruby_mode, law_num, law_name,
                 law_date, xml_out, regVars, eraVars, fileVars, scanVars, ordVars>>

\* Ok(Event::Text(text))
RegOnText(text, utf8) ==
  /\ Reading
  /\ events' = Append(events, TextEv(text, utf8))
  /\ IF is_law_num_mode
     THEN IF utf8
          THEN law_num' = text /\ xml_out' = xml_out
          ELSE xml_out' = [kind |-> "Err", err |-> "decode"] /\ law_num' = law_num
     ELSE UNCHANGED <<law_num, xml_out>>
  /\ UNCHANGED <<overflow_checks, open, is_law_num_mode, is_law_name_mode, is_ruby_mode,
                 law_name, law_date, regVars, eraVars, fileVars, scanVars, ordVars>>

\* every other event: `_ => ()`
RegOnOther ==
  /\ Reading
  /\ events' = Append(events, OtherEv)
  /\ UNCHANGED <<overflow_checks, open, is_law_num_mode, is_law_name_mode, is_ruby_mode,
                 law_num, law_name, law_date, xml_out, regVars, eraVars, fileVars, scanVars, ordVars>>

\* Err(e)
RegOnErr ==
  /\ Reading
  /\ events' = Append(events, ErrEv)
  /\ xml_out' = Panic("XML parse error")
  /\ UNCHANGED <<overflow_checks, open, is_law_num_mode, is_law_name_mode, is_ruby_mode,
                 law_num, law_name, law_date, regVars, eraVars, fileVars, scanVars, ordVars>>

\* Ok(Event::Eof): leave the loop, look the law number up, log a miss
RegOnEof ==
  /\ xml_out = NoCall
  /\ events' = Append(events, EofEv)
  /\ xml_out' = reg_make_law_data_result
  /\ reg_log' = IF law_num \in DOMAIN law_id_map THEN reg_log
                ELSE Append(reg_log, [level |-> "error", msg |-> "Not Found LawId", num |-> law_num])
  /\ UNCHANGED <<overflow_checks, open, is_law_num_mode, is_law_name_mode, is_ruby_mode,
                 law_num, law_name, law_date, law_id_map, eraVars, fileVars, scanVars, ordVars>>

NextReg ==
  \/ \E attrs \in LawAttrLists : RegOnStartLaw(attrs)
  \/ \E name \in RegTagNames : RegOnStart(name)
  \/ \E name \in RegTagNames : RegOnEnd(name)
  \/ \E ev \in TextEvents : RegOnText(ev.text, ev.utf8)
  \/ RegOnOther
  \/ RegOnErr
  \/ RegOnEof

SpecReg == InitReg /\ [][NextReg]_vars

(***************************************************************************)
(* Date ordering (PartialOrd and Ord of Date) and the stable sort_by that  *)
(* main applies to a patch list.                                           *)
(***************************************************************************)
int_cmp(a, b) == IF a < b THEN "Less" ELSE IF a > b THEN "Greater" ELSE "Equal"

\* Date::partial_cmp: "None" is Option::None, no ordering.
date_partial_cmp(self, other) ==
  IF self.ad_year = other.ad_year
  THEN IF IsSome(self.month) /\ IsSome(other.month)
       THEN IF int_cmp(Unwrap(self.month), Unwrap(other.month)) = "Equal"
            THEN IF IsSome(self.day) /\ IsSome(other.day)
                 THEN int_cmp(Unwrap(self.day), Unwrap(other.day))
                 ELSE "None"
            ELSE int_cmp(Unwrap(self.month), Unwrap(other.month))
       ELSE "None"
  ELSE int_cmp(self.ad_year, other.ad_year)

\* Date::cmp
date_cmp(self, other) ==
  IF date_partial_cmp(self, other) = "None" THEN "Equal" ELSE date_partial_cmp(self, other)

Front(seq) == SubSeq(seq, 1, Len(seq) - 1)

Last(seq) == seq[Len(seq)]

\* x put behind the last element of the sorted list that is not greater than it.
RECURSIVE insert_by_patch_date(_, _)
insert_by_patch_date(sorted, x) ==
  IF sorted = <<>> THEN <<x>>
  ELSE IF date_cmp(Last(sorted).patch_date, x.patch_date) = "Greater"
       THEN Append(insert_by_patch_date(Front(sorted), x), Last(sorted))
       ELSE Append(sorted, x)

\* lst.sort_by(|a, b| a.patch_date.cmp(&b.patch_date)): a stable sort.
RECURSIVE sort_by_patch_date(_)
sort_by_patch_date(lst) ==
  IF lst = <<>> THEN <<>>
  ELSE insert_by_patch_date(sort_by_patch_date(Front(lst)), Last(lst))

(***************************************************************************)
(* Date ordering on its own: one call of partial_cmp or of cmp on a pair   *)
(* of dates. The dates are the ones the two producers of Date can build in *)
(* 1989 and 1990: every combination of month and day present or absent,    *)
(* and both eras of 1989.                                                  *)
(***************************************************************************)
OrdEraYears == {<<"Showa", 64>>, <<"Heisei", 1>>, <<"Heisei", 2>>}

OrdMonths == {None, Some(1), Some(2)}

OrdDays == {None, Some(1), Some(2)}

OrdDates ==
  { [ad_year |-> era_to_ad(ey[1], ey[2]), era |-> ey[1], year |-> ey[2],
     year_wrapped |-> FALSE, month |-> m, day |-> d] :
      ey \in OrdEraYears, m \in OrdMonths, d \in OrdDays }

\* Neither method subtracts: the build profile does not matter to them.
InitOrd ==
  /\ overflow_checks = FALSE
  /\ cmp_self \in {Some(x) : x \in OrdDates}
  /\ cmp_other \in {Some(x) : x \in OrdDates}
  /\ cmp_out = NoCall
  /\ IdleEra
  /\ IdleFile
  /\ IdleXml
  /\ IdleReg
  /\ IdleScan

\* self.partial_cmp(&other), which the operators <, <=, > and >= use
CallPartialCmp ==
  /\ cmp_out = NoCall
  /\ cmp_out' = [kind |-> "partial_cmp",
                 ord |-> date_partial_cmp(Unwrap(cmp_self), Unwrap(cmp_other))]
  /\ UNCHANGED <<overflow_checks, cmp_self, cmp_other, eraVars, fileVars, xmlVars, regVars,
                 scanVars>>

\* self.cmp(&other), which main's sort_by uses
CallCmp ==
  /\ cmp_out = NoCall
  /\ cmp_out' = [kind |-> "cmp", ord |-> date_cmp(Unwrap(cmp_self), Unwrap(cmp_other))]
  /\ UNCHANGED <<overflow_checks, cmp_self, cmp_other, eraVars, fileVars, xmlVars, regVars,
                 scanVars>>

NextOrd == CallPartialCmp \/ CallCmp

SpecOrd == InitOrd /\ [][NextOrd]_vars

(***************************************************************************)
(* PatchChainBuilder and the output: get_law_info_lst and main of main.rs. *)
(*                                                                         *)
(* A file on disk is [dir, file, is_file, xml]: xml is what parse_xml_file *)
(* returns for it, Ok with the Law's era, year, number and optional title, *)
(* or Err. The dates come from the file name, through ad_to_era.           *)
(***************************************************************************)
\* Date::new(era, year, None, None)
date_new(era, year) ==
  [ad_year |-> era_to_ad(era, year), era |-> era, year |-> year, year_wrapped |-> FALSE,
   month |-> None, day |-> None]

\* Date::gen_from_ad(ad_year, month, day): the date of file_path_to_data.
gen_from_ad(ad_year, month, day) ==
  LET ey == ad_to_era(ad_year, month, day) IN
  IF ey.kind = "Panic" THEN ey
  ELSE [kind |-> "Ok",
        val |-> [ad_year |-> ad_year, era |-> ey.era, year |-> ey.year,
                 year_wrapped |-> ey.wrapped, month |-> Some(month), day |-> Some(day)]]

\* One pass of the inner loop body on a file: what it leaves in info_lst, or
\* the error it returns with `?`, or a panic. LawId::from_str belongs to another
\* crate: a law id and a patch id are kept as the text the pattern captured.
scan_file(map, f) ==
  LET caps == captures(f.file) IN
  IF f.xml.kind = "Err" THEN [kind |-> "Err", err |-> "parse_xml_file"]
  ELSE IF caps = None THEN [kind |-> "Err", err |-> "cannot parse file path"]
  ELSE
    LET c == Unwrap(caps)
        law_id == c.id
        y == parse_usize(c.ad_year)
        m == parse_usize(c.month)
        d == parse_usize(c.day) IN
    IF y.kind = "Err" \/ m.kind = "Err" \/ d.kind = "Err"
    THEN Panic("called Result::unwrap() on an Err value")
    ELSE
      LET patch_date == gen_from_ad(y.val, m.val, d.val) IN
      IF patch_date.kind = "Panic" THEN patch_date
      ELSE
        LET patch == [id |-> law_id, patch_date |-> patch_date.val, patch_id |-> c.patch_id] IN
        IF law_id \in DOMAIN map
        THEN [kind |-> "Ok",
              val |-> [map EXCEPT ![law_id].patch = Append(map[law_id].patch, patch)]]
        ELSE [kind |-> "Ok",
              val |-> [k \in DOMAIN map \cup {law_id} |->
                         IF k = law_id
                         THEN [date |-> date_new(f.xml.era, f.xml.year),
                               name |-> IF IsSome(f.xml.law_title)
                                        THEN Unwrap(f.xml.law_title) ELSE "",
                               num |-> f.xml.law_num,
                               id |-> law_id,
                               patch |-> <<patch>>]
                         ELSE map[k]]]

\* The corpora: any choice among these entries of two subdirectories.
VersionFileName(id, date, patch_id) ==
  id \o <<"_">> \o date \o <<"_">> \o patch_id \o <<".", "x", "m", "l">>

XmlOk(era, year, num, title) ==
  [kind |-> "Ok", era |-> era, year |-> year, law_num |-> num, law_title |-> title]

XmlErr == [kind |-> "Err", era |-> "-", year |-> 0, law_num |-> "", law_title |-> None]

DiskEntries ==
  { [dir |-> "A", is_file |-> TRUE,
     file |-> VersionFileName(<<"A">>, <<"2", "0", "0", "0", "0", "1", "0", "1">>, <<"1">>),
     xml |-> XmlOk("Heisei", 12, "num 2000", Some("title 2000"))],
    [dir |-> "A", is_file |-> TRUE,
     file |-> VersionFileName(<<"A">>, <<"2", "0", "1", "0", "0", "1", "0", "1">>, <<"2">>),
     xml |-> XmlOk("Heisei", 12, "num 2010", Some("title 2010"))],
    [dir |-> "A", is_file |-> TRUE,
     file |-> VersionFileName(<<"A">>, <<"2", "0", "0", "5", "0", "6", "1", "5">>, <<"3">>),
     xml |-> XmlOk("Heisei", 12, "num 2005", None)],
    [dir |-> "A", is_file |-> FALSE, file |-> <<"x">>, xml |-> XmlErr],
    [dir |-> "C", is_file |-> TRUE,
     file |-> VersionFileName(<<"C">>, <<"1", "9", "9", "0", "0", "1", "0", "1">>, <<"1">>),
     xml |-> XmlOk("Showa", 30, "num C", Some("title C"))],
    [dir |-> "C", is_file |-> TRUE,
     file |-> VersionFileName(<<"C">>, <<"2", "0", "2", "0", "0", "1", "0", "1">>, <<"2">>),
     xml |-> XmlErr],
    [dir |-> "C", is_file |-> TRUE,
     file |-> <<"C", ".", "x", "m", "l">>,
     xml |-> XmlOk("Showa", 30, "num C", Some("title C"))] }

DirEntry(name) == [name |-> name, is_dir |-> TRUE]

PlainEntry == [name |-> "index", is_dir |-> FALSE]

Init ==
  /\ overflow_checks \in BOOLEAN
  /\ corpus \in SUBSET DiskEntries
  /\ \E plain \in SUBSET {PlainEntry} :
       top = {DirEntry(e.dir) : e \in corpus} \cup plain
  /\ cur = None
  /\ seen = {}
  /\ info_lst = <<>>
  /\ pc = "scan"
  /\ io_failed = FALSE
  /\ unwritten = {}
  /\ patch_log = <<>>
  /\ output = <<>>
  /\ IdleEra
  /\ IdleFile
  /\ IdleXml
  /\ IdleReg
  /\ IdleOrd

\* work_dir_info.next_entry() returns an entry: a directory is opened, anything else skipped
NextDirEntry(e) ==
  /\ pc = "scan"
  /\ cur = None
  /\ e \in top
  /\ top' = top \ {e}
  /\ cur' = IF e.is_dir THEN Some(e.name) ELSE None
  /\ UNCHANGED <<overflow_checks, corpus, seen, info_lst, pc, io_failed, unwritten,
                 patch_log, output, eraVars, fileVars, xmlVars, regVars, ordVars>>

\* new_dir.next_entry() returns an entry: the loop body on it
NextFileEntry(f) ==
  /\ pc = "scan"
  /\ IsSome(cur)
  /\ f \in corpus
  /\ f.dir = Unwrap(cur)
  /\ corpus' = corpus \ {f}
  /\ IF f.is_file
     THEN /\ seen' = seen \cup {f}
          /\ LET r == scan_file(info_lst, f) IN
             /\ info_lst' = IF r.kind = "Ok" THEN r.val ELSE info_lst
             /\ pc' = CASE r.kind = "Ok" -> "scan"
                        [] r.kind = "Err" -> "failed"
                        [] r.kind = "Panic" -> "panicked"
     ELSE UNCHANGED <<seen, info_lst, pc>>
  /\ UNCHANGED <<overflow_checks, top, cur, io_failed, unwritten, patch_log, output,
                 eraVars, fileVars, xmlVars, regVars, ordVars>>

\* new_dir.next_entry() returns None: back to the outer loop
EndOfDir ==
  /\ pc = "scan"
  /\ IsSome(cur)
  /\ \A f \in corpus : f.dir # Unwrap(cur)
  /\ cur' = None
  /\ UNCHANGED <<overflow_checks, top, corpus, seen, info_lst, pc, io_failed, unwritten,
                 patch_log, output, eraVars, fileVars, xmlVars, regVars, ordVars>>

\* work_dir_info.next_entry() returns None: get_law_info_lst returns the map
EndOfWalk ==
  /\ pc = "scan"
  /\ cur = None
  /\ top = {}
  /\ pc' = "write"
  /\ unwritten' = DOMAIN info_lst
  /\ UNCHANGED <<overflow_checks, top, corpus, cur, seen, info_lst, io_failed, patch_log,
                 output, eraVars, fileVars, xmlVars, regVars, ordVars>>

\* read_dir, next_entry, file_type or a write returns an error: main returns it
IoFailure ==
  /\ pc \in {"scan", "write"}
  /\ pc' = "failed"
  /\ io_failed' = TRUE
  /\ UNCHANGED <<overflow_checks, top, corpus, cur, seen, info_lst, unwritten, patch_log,
                 output, eraVars, fileVars, xmlVars, regVars, ordVars>>

\* One pass of main's loop: sort a copy of the patch list, log it, write data
WriteLaw(id) ==
  /\ pc = "write"
  /\ id \in unwritten
  /\ LET data == info_lst[id]
         lst == sort_by_patch_date(data.patch) IN
     /\ patch_log' = Append(patch_log, lst)
     /\ output' = Append(output, data)
  /\ unwritten' = unwritten \ {id}
  /\ UNCHANGED <<overflow_checks, top, corpus, cur, seen, info_lst, pc, io_failed,
                 eraVars, fileVars, xmlVars, regVars, ordVars>>

\* flush_file_value_lst: the run ends
Flush ==
  /\ pc = "write"
  /\ unwritten = {}
  /\ pc' = "done"
  /\ UNCHANGED <<overflow_checks, top, corpus, cur, seen, info_lst, io_failed, unwritten,
                 patch_log, output, eraVars, fileVars, xmlVars, regVars, ordVars>>

Next ==
  \/ \E e \in top : NextDirEntry(e)
  \/ \E f \in corpus : NextFileEntry(f)
  \/ EndOfDir
  \/ EndOfWalk
  \/ IoFailure
  \/ \E id \in unwritten : WriteLaw(id)
  \/ Flush

Spec == Init /\ [][Next]_vars

(***************************************************************************)
(* The era table of the specification: the era whose closed interval       *)
(* [first day, last day] contains the date t = year*10000 + month*100+day. *)
(***************************************************************************)
ArgT == Unwrap(ad) * 10000 + era_arg.month * 100 + era_arg.day

IntervalEra(t) ==
  CASE 18681023 <= t /\ t <= 19120729 -> "Meiji"
    [] 19120730 <= t /\ t <= 19261224 -> "Taisho"
    [] 19261225 <= t /\ t <= 19890107 -> "Showa"
    [] 19890108 <= t /\ t <= 20190430 -> "Heisei"
    [] 20190501 <= t -> "Reiwa"
    [] OTHER -> "-"

Returned == era_out.kind # "NoCall"

ReturnedPair(era, year) ==
  /\ era_out.kind = "Ok"
  /\ era_out.era = era
  /\ era_out.year = year
  /\ ~era_out.wrapped

\* C3: for every era and every era-relative year y of its range, ad_to_era on
\* the Gregorian year era_to_ad(era, y), with a month and day inside that era,
\* returns exactly (era, y).
C3_RoundTrip ==
  (/\ Returned
   /\ era_arg.kind = "era"
   /\ IntervalEra(ArgT) = era_arg.era)
  => ReturnedPair(era_arg.era, era_arg.year)

\* C4: ad_to_era assigns every date from 1868-10-23 onward to the era whose
\* interval contains it, and (1989,1,7) = (Showa,64), (1989,1,8) = (Heisei,1),
\* (2019,4,30) = (Heisei,31), (2019,5,1) = (Reiwa,1).
C4_EraBoundaries ==
  (Returned /\ ArgT >= 18681023)
  => /\ era_out.kind = "Ok"
     /\ era_out.era = IntervalEra(ArgT)
     /\ (ArgT = 19890107 => ReturnedPair("Showa", 64))
     /\ (ArgT = 19890108 => ReturnedPair("Heisei", 1))
     /\ (ArgT = 20190430 => ReturnedPair("Heisei", 31))
     /\ (ArgT = 20190501 => ReturnedPair("Reiwa", 1))

\* C5: for every date strictly before 1868-10-23, ad_to_era fails with a
\* DateOutOfRange error value: it neither returns an era nor aborts.
C5_DateOutOfRange ==
  (Returned /\ ArgT < 18681023)
  => /\ era_out.kind = "Err"
     /\ era_out.err = "DateOutOfRange"

(***************************************************************************)
(* The file-name grammar of the specification, on the whole name:          *)
(* <id>_<YYYYMMDD>_<patch-id>.xml, <id> and <patch-id> alphanumeric.       *)
(***************************************************************************)
Alnum == Digit \cup Letter

GrammarSplit(s, j, k) ==
  /\ 1 < j
  /\ AllIn(s, 1, j - 1, Alnum)
  /\ j + 9 <= Len(s)
  /\ s[j] = "_"
  /\ AllIn(s, j + 1, j + 8, Digit)
  /\ s[j + 9] = "_"
  /\ j + 10 <= k
  /\ AllIn(s, j + 10, k, Alnum)
  /\ Len(s) = k + 4
  /\ SubSeq(s, k + 1, k + 4) = <<".", "x", "m", "l">>

HasGrammarForm(s) == \E j \in 1..Len(s), k \in 1..Len(s) : GrammarSplit(s, j, k)

\* C6: file_path_to_data succeeds exactly when the whole file name has the form
\* <id>_<YYYYMMDD>_<patch-id>.xml, returning that id, year, month, day and patch
\* id; every other name fails with the pattern-mismatch error carrying the name.
C6_FilenameGrammar ==
  fp_out.kind # "NoCall" =>
    IF HasGrammarForm(file_name)
    THEN \E j \in 1..Len(file_name), k \in 1..Len(file_name) :
           /\ GrammarSplit(file_name, j, k)
           /\ fp_out.kind = "Ok"
           /\ fp_out.id = SubSeq(file_name, 1, j - 1)
           /\ fp_out.info.id = SubSeq(file_name, 1, j - 1)
           /\ fp_out.info.patch_date.ad_year = digits_value(SubSeq(file_name, j + 1, j + 4))
           /\ fp_out.info.patch_date.month = Some(digits_value(SubSeq(file_name, j + 5, j + 6)))
           /\ fp_out.info.patch_date.day = Some(digits_value(SubSeq(file_name, j + 7, j + 8)))
           /\ fp_out.info.patch_id = SubSeq(file_name, j + 10, k)
    ELSE fp_out = path_parse_failure(file_name)

(***************************************************************************)
(* The extractor's claims, stated on the events the reader returned.       *)
(***************************************************************************)
IsStartOf(ev, name) == ev.type = "Start" /\ ev.name = name

IsEndOf(ev, name) == ev.type = "End" /\ ev.name = name

\* Event p lies inside an element `name`: more of them were started than ended.
InsideAt(name, p) ==
  Cardinality({q \in 1..(p - 1) : IsStartOf(events[q], name)})
    > Cardinality({q \in 1..(p - 1) : IsEndOf(events[q], name)})

\* A start tag `name` came before event p and no end tag `name` since.
OpenAt(name, p) ==
  \E q \in 1..(p - 1) :
    /\ IsStartOf(events[q], name)
    /\ \A r \in (q + 1)..(p - 1) : ~IsEndOf(events[r], name)

TextPositions == {p \in 1..Len(events) : events[p].type = "Text"}

LastTextOf(S) == IF S = {} THEN "" ELSE events[SetMax(S)].text

ReturnedRecord == xml_out.kind = "Ok" /\ IsSome(xml_out.val)

\* C7 as claimed: the title returned is the last text token that occurred inside
\* LawTitle while not inside a Ruby element.
C7_TitleLastNonRubyText ==
  ReturnedRecord =>
    Unwrap(xml_out.val).name =
      LastTextOf({p \in TextPositions : InsideAt("LawTitle", p) /\ ~InsideAt("Ruby", p)})

\* C7 as amended: the title returned is the last text token read while a
\* LawTitle start tag had been read with no LawTitle end tag since, and the same
\* was true of neither Ruby nor LawNum; it is empty when there is none.
C7_TitleLastCapturedText ==
  ReturnedRecord =>
    Unwrap(xml_out.val).name =
      LastTextOf({p \in TextPositions :
                    /\ OpenAt("LawTitle", p)
                    /\ ~OpenAt("Ruby", p)
                    /\ ~OpenAt("LawNum", p)})

\* C7's case: a record whose title is a text of LawTitle that was followed by
\* a text inside a nested Ruby.
C7_Witness ==
  /\ ReturnedRecord
  /\ Unwrap(xml_out.val).name = "a"
  /\ \E p \in TextPositions, q \in TextPositions :
       /\ p < q
       /\ events[p].text = "a"
       /\ events[q].text = "b"
       /\ OpenAt("LawTitle", p) /\ ~OpenAt("Ruby", p)
       /\ OpenAt("LawTitle", q) /\ OpenAt("Ruby", q)

HasKey(attrs, key) == \E p \in 1..Len(attrs) : attrs[p].key = key

EndedWithoutLaw ==
  /\ events # <<>>
  /\ events[Len(events)].type = "Eof"
  /\ \A p \in 1..Len(events) : ~IsStartOf(events[p], "Law")

LawLacksEraOrYear ==
  \E p \in 1..Len(events) :
    /\ IsStartOf(events[p], "Law")
    /\ (~HasKey(events[p].attrs, "Era") \/ ~HasKey(events[p].attrs, "Year"))

\* C8: when the stream ends without a Law start element, or the Law element
\* lacks the Era or Year attribute, make_law_data returns None: no error, no abort.
C8_NoneWithoutLaw ==
  (EndedWithoutLaw \/ LawLacksEraOrYear) => xml_out = [kind |-> "Ok", val |-> None]

\* The lookup ran: the stream ended and the code after the loop was reached.
LookedUp == events # <<>> /\ events[Len(events)].type = "Eof"

MissLine == [level |-> "error", msg |-> "Not Found LawId", num |-> law_num]

\* C10: in the registry-driven variant make_law_data returns a record whose id
\* and name are the registry entry of the extracted law number when that number
\* is a key of the registry, and Ok(None) with a logged miss when it is not.
C10_RegistryLookup ==
  LookedUp =>
    IF law_num \in DOMAIN law_id_map
    THEN /\ xml_out.kind = "Ok"
         /\ IsSome(xml_out.val)
         /\ Unwrap(xml_out.val).id = law_id_map[law_num].id
         /\ Unwrap(xml_out.val).name = law_id_map[law_num].name
    ELSE /\ xml_out = [kind |-> "Ok", val |-> None]
         /\ reg_log = <<MissLine>>

(***************************************************************************)
(* The patch chain's claims, stated on the records written to the output.  *)
(***************************************************************************)
Ascending(patch) ==
  \A i \in 1..Len(patch), j \in 1..Len(patch) :
    i < j => date_cmp(patch[i].patch_date, patch[j].patch_date) # "Greater"

\* C1: for every law id and every discovery order of its version files, the
\* patch list of the record written to the output is in ascending patch-date order.
C1_WrittenPatchListAscending ==
  \A k \in 1..Len(output) : Ascending(output[k].patch)

\* The version files of a law id that the scan read, and the date in a name.
Resolvable(f) == f.is_file /\ f.xml.kind = "Ok" /\ captures(f.file) # None

FileId(f) == Unwrap(captures(f.file)).id

FileDate(f) ==
  LET c == Unwrap(captures(f.file)) IN digits_value(c.ad_year \o c.month \o c.day)

VersionsOf(id) == {f \in seen : Resolvable(f) /\ FileId(f) = id}

LatestOf(id) == {f \in VersionsOf(id) : \A g \in VersionsOf(id) : FileDate(g) <= FileDate(f)}

TitleOf(f) == IF IsSome(f.xml.law_title) THEN Unwrap(f.xml.law_title) ELSE ""

\* C2: once all files of a law id have been scanned, the record's name and law
\* number are the ones of the file with the latest patch date of that id,
\* whatever the discovery order.
C2_NameFromLatestVersion ==
  \A k \in 1..Len(output) :
    \E f \in LatestOf(output[k].id) :
      /\ output[k].name = TitleOf(f)
      /\ output[k].num = f.xml.law_num

\* C9: an error confined to one file never stops the scan: the run ends early
\* only on a filesystem failure, and a run that ends has written a record for
\* every file that resolves.
C9_PerFileErrorsDoNotStopScan ==
  /\ pc \in {"failed", "panicked"} => io_failed
  /\ pc = "done" =>
       \A f \in seen : Resolvable(f) => \E k \in 1..Len(output) : output[k].id = FileId(f)

(***************************************************************************)
(* C11: a comparison of two dates orders them by Gregorian year when the   *)
(* years differ, by month when the years are equal and both have a month,  *)
(* by day when the months are equal too and both have a day; in every      *)
(* other case it yields no ordering: it reports neither less nor greater   *)
(* nor equal.                                                              *)
(***************************************************************************)
Compared == cmp_out # NoCall

BothHave(a, b, field) == IsSome(a[field]) /\ IsSome(b[field])

SameMonth(a, b) == BothHave(a, b, "month") /\ Unwrap(a.month) = Unwrap(b.month)

Incomparable(a, b) ==
  /\ a.ad_year = b.ad_year
  /\ \/ ~BothHave(a, b, "month")
     \/ SameMonth(a, b) /\ ~BothHave(a, b, "day")

ClaimedOrder(a, b, ord) ==
  /\ a.ad_year # b.ad_year => ord = int_cmp(a.ad_year, b.ad_year)
  /\ (a.ad_year = b.ad_year /\ BothHave(a, b, "month") /\ ~SameMonth(a, b))
       => ord = int_cmp(Unwrap(a.month), Unwrap(b.month))
  /\ (a.ad_year = b.ad_year /\ SameMonth(a, b) /\ BothHave(a, b, "day"))
       => ord = int_cmp(Unwrap(a.day), Unwrap(b.day))
  /\ Incomparable(a, b) => ord \notin {"Less", "Greater", "Equal"}

C11_DateComparison ==
  Compared => ClaimedOrder(Unwrap(cmp_self), Unwrap(cmp_other), cmp_out.ord)

(***************************************************************************)
(* C12: every Date the system produces, by make_law_data from the          *)
(* attributes of Law or by file_path_to_data from a file name, has a month *)
(* whenever it has a day, whichever of the month and day attributes are    *)
(* present, absent or unparsable.                                          *)
(***************************************************************************)
DayNeedsMonth(d) == IsSome(d.day) => IsSome(d.month)

FileDateProduced == fp_out.kind = "Ok"

LawDateProduced == IsSome(law_date)

RecordProduced == xml_out.kind = "Ok"

C12_DayImpliesMonth ==
  /\ FileDateProduced => DayNeedsMonth(fp_out.info.patch_date)
  /\ LawDateProduced => DayNeedsMonth(Unwrap(law_date))
  /\ RecordProduced => DayNeedsMonth(Unwrap(xml_out.val).date)

(***************************************************************************)
(* C13: for every date on or after 1868-10-23 the era-relative year that   *)
(* ad_to_era computes is at least 1, its unsigned subtraction does not     *)
(* underflow, and era_to_ad of the returned era and year is the Gregorian  *)
(* year given; hence every patch date that file_path_to_data builds has    *)
(* ad_year = era_to_ad(era, year).                                         *)
(***************************************************************************)
EraYearSound(out, gregorian) ==
  /\ out.kind = "Ok"
  /\ ~out.wrapped
  /\ out.year >= 1
  /\ era_to_ad(out.era, out.year) = gregorian

PatchDateSound(d) == ~d.year_wrapped /\ d.ad_year = era_to_ad(d.era, d.year)

C13_EraYearNeverUnderflows ==
  /\ (Returned /\ ArgT >= 18681023) => EraYearSound(era_out, Unwrap(ad))
  /\ FileDateProduced => PatchDateSound(fp_out.info.patch_date)

====
